---- MODULE Spec2Model ----
(***************************************************************************)
(* A model of scripts/github_stats_updater.py: the stats collector         *)
(* (get_github_stats, get_commit_time_data), the text renderer             *)
(* (create_daily_commit_bars, create_heatmap, create_stats_section) and    *)
(* the file patcher (update_readme), driven by main.                       *)
(*                                                                         *)
(* Text is modelled as a sequence of tokens: the two marker strings, the   *)
(* newline, ordinary text characters and the rendered stats block (one     *)
(* token carrying everything the block is rendered from).  Dictionaries    *)
(* are functions whose DOMAIN is the set of keys present.                  *)
(***************************************************************************)
EXTENDS Integers, Sequences, FiniteSets, TLC

VARIABLES
    pc,                 \* position of the script
    token,              \* os.environ.get('GITHUB_TOKEN')
    n_repos,            \* length of the listing user.get_repos() returns
    si, yi, ti,         \* repositories the three loops over get_repos() have taken
    k,                  \* commits/events the current iteration has yielded
    stars, prs, issues, \* stats['stars'], stats['prs'], stats['issues']
    commits,            \* local 'commits' of get_github_stats
    hourly_commits,     \* day -> hour -> count
    daily_commits,      \* day -> count
    contributed_repos,  \* set of repository names
    stats,              \* the dict get_github_stats returns
    daily_bars,         \* local of create_stats_section
    heatmap,            \* local of create_stats_section
    stats_section,      \* the rendered block
    file,               \* content of README.md on disk
    content,            \* local 'content' of update_readme
    prior,              \* history: content of README.md as this run read it
    prev_section,       \* history: the block the previous completed run wrote
    runs,               \* history: completed runs of update_readme
    file0,              \* history: README.md before the script started
    io_ops,             \* history: opens of README.md
    api_called,         \* history: a call to the GitHub API has been made
    yielded,            \* history: cell -> commits the API yielded for it
    counted,            \* history: sum of the totalCount values the API returned
    failed_year,        \* history: first repository whose yearly call raised, or 0
    failed_time,        \* history: first repository whose 30-day listing raised, or 0
    crashed_at          \* history: where the process was killed ("" if not)

vars == <<pc, token, n_repos, si, yi, ti, k, stars, prs, issues, commits,
          hourly_commits, daily_commits, contributed_repos, stats, daily_bars,
          heatmap, stats_section, file, content, prior, prev_section, runs,
          file0, io_ops, api_called, yielded, counted, failed_year, failed_time,
          crashed_at>>

(***************************************************************************)
(* Bounds of the model.                                                    *)
(***************************************************************************)
MaxDaily == 10      \* largest count in a drawn daily histogram
MaxDays == 2        \* days present in a drawn daily histogram
MaxCell == 4        \* largest count in a drawn day/hour histogram
MaxCells == 2       \* cells present in a drawn day/hour histogram
MaxLen == 4         \* tokens in the README before the first run
MaxRuns == 2        \* runs of update_readme in a row
MaxRepos == 2       \* repositories in the listing
MaxCommits == 1     \* commits one repository yields in the 30-day window
MaxEvents == 1      \* events scanned

(***************************************************************************)
(* Python values and arithmetic.                                           *)
(***************************************************************************)
EmptyDict == [x \in {} |-> 0]

\* the marker values of an exception raised while evaluating an expression
ZeroDivisionError == -1
ValueError == -2

MaxOf(S) == CHOOSE m \in S : \A x \in S : x <= m
MinOf(S) == CHOOSE m \in S : \A x \in S : m <= x

\* round(n / d) on non-negative n: float division, then round half to even
PyRound(n, d) ==
    IF d = 0 THEN ZeroDivisionError
    ELSE LET q == n \div d
             r == n % d
         IN IF 2 * r < d THEN q
            ELSE IF 2 * r > d THEN q + 1
            ELSE IF q % 2 = 0 THEN q ELSE q + 1

\* int(n / d) on non-negative n: float division, then truncation
PyInt(n, d) == IF d = 0 THEN ZeroDivisionError ELSE n \div d

\* dict.get(key, default)
Get(dict, key, default) == IF key \in DOMAIN dict THEN dict[key] ELSE default

(***************************************************************************)
(* Text renderer.                                                          *)
(***************************************************************************)
days == <<"Mon", "Tue", "Wed", "Thu", "Fri", "Sat", "Sun">>
Days == {days[n] : n \in 1..Len(days)}
hours == 0..23

BarWidth == 20
HoursScale == 24

\* the palette, from empty to full (ASCII stand-ins of the seven glyph pairs)
intensity_chars == <<"..", "+.", "++", "#.", "#+", "#*", "##">>

\* max(daily_commits.values()) if daily_commits else 1
DailyMax(dc) ==
    IF DOMAIN dc # {} THEN MaxOf({dc[d] : d \in DOMAIN dc}) ELSE 1

\* faulty variant: the 'max_commits > 0' guard left out
Scaled_unguarded(c, scale, max_commits) == PyRound(c * scale, max_commits)

\* round(commits * scale / max_commits) if max_commits > 0 else 0
Scaled(c, scale, max_commits) ==
    IF max_commits > 0 THEN PyRound(c * scale, max_commits) ELSE 0

\* one entry per line of the chart, in the order of 'days'
create_daily_commit_bars(dc) ==
    LET max_commits == DailyMax(dc)
    IN [n \in 1..Len(days) |->
          LET c == Get(dc, days[n], 0)
          IN [day |-> days[n],
              hours |-> Scaled(c, HoursScale, max_commits),
              bar_length |-> Scaled(c, BarWidth, max_commits)]]

\* max(commits for day_commits in values() for commits in day_commits.values())
\* if hourly_commits else 1
CellCounts(hc) == UNION {{hc[d][h] : h \in DOMAIN hc[d]} : d \in DOMAIN hc}

CellMax(hc) ==
    IF DOMAIN hc # {} THEN
        IF CellCounts(hc) = {} THEN ValueError ELSE MaxOf(CellCounts(hc))
    ELSE 1

\* hourly_commits.get(day, {}).get(hour, 0)
CellOf(hc, day, hour) == Get(Get(hc, day, EmptyDict), hour, 0)

\* faulty variant: scaled by len(intensity_chars), not len(intensity_chars) - 1
Intensity_len(c, max_commits) ==
    IF max_commits > 0 THEN PyInt(c * Len(intensity_chars), max_commits) ELSE 0

\* faulty variant: round() in place of int()
Intensity_round(c, max_commits) ==
    IF max_commits > 0 THEN PyRound(c * (Len(intensity_chars) - 1), max_commits) ELSE 0

\* int((commits * (len(intensity_chars) - 1)) / max_commits) if max_commits > 0 else 0
Intensity(c, max_commits) ==
    IF max_commits > 0 THEN PyInt(c * (Len(intensity_chars) - 1), max_commits) ELSE 0

\* the rows below the header, in the order of 'days'; row n holds, for hour
\* 0, 1, ... 23, the index whose glyph intensity_chars[index + 1] is printed
create_heatmap(hc) ==
    LET max_commits == CellMax(hc)
    IN [n \in 1..Len(days) |->
          [h \in 1..Cardinality(hours) |-> Intensity(CellOf(hc, days[n], h - 1), max_commits)]]

\* the f-string of create_stats_section: the five numbers, the chart, the heatmap
\* (the year in the 'Total Commits' label, read from the clock, is left out)
StatsSection(st, bars, heat) ==
    [stars |-> st.stars, commits |-> st.commits, prs |-> st.prs,
     issues |-> st.issues, contributed_to |-> st.contributed_to,
     daily_bars |-> bars, heatmap |-> heat]

\* the dict get_github_stats builds
StatsDict(s, p, is, c, hc, dc, ct) ==
    [stars |-> s, prs |-> p, issues |-> is, contributions |-> 0, commits |-> c,
     hourly_commits |-> hc, daily_commits |-> dc, contributed_to |-> ct]

NoStats == StatsDict(0, 0, 0, 0, EmptyDict, EmptyDict, 0)
NoBars == create_daily_commit_bars(EmptyDict)
NoHeat == create_heatmap(EmptyDict)
NoSection == StatsSection(NoStats, NoBars, NoHeat)

(***************************************************************************)
(* File patcher: text as tokens.                                           *)
(***************************************************************************)
start_marker == <<"start">>            \* '<!--START_SECTION:github_stats-->'
end_marker == <<"end">>                \* '<!--END_SECTION:github_stats-->'
newline == <<"nl">>                    \* '\n'
text == <<"text">>                     \* any other character
Block(section) == <<"block", section>> \* the text of stats_section

\* faulty variant: the end marker is looked for
HasStart_end(c) == \E n \in 1..Len(c) : c[n] = end_marker

\* start_marker not in content (negated)
HasStart(c) == \E n \in 1..Len(c) : c[n] = start_marker

\* faulty variant: '=' in place of '+='
AppendSection_overwrite(c, section) ==
    <<newline, start_marker, newline, Block(section), newline, end_marker, newline>>

\* content += f'\n{start_marker}\n{stats_section}\n{end_marker}\n'
AppendSection(c, section) ==
    c \o <<newline, start_marker, newline, Block(section), newline, end_marker, newline>>

\* f'{start_marker}\n{stats_section}\n{end_marker}'
Replacement(section) ==
    <<start_marker, newline, Block(section), newline, end_marker>>

\* faulty variant: '.*?', which stops at the first end marker
MatchEnd_lazy(c, from) == MinOf({j \in (from + 1)..Len(c) : c[j] = end_marker})

\* where '.*' stops after a start marker at 'from': greedy with DOTALL, the
\* last end marker of the text
MatchEnd(c, from) == MaxOf({j \in (from + 1)..Len(c) : c[j] = end_marker})

\* re.sub(pattern, repl, content, flags=re.DOTALL): every non-overlapping
\* match, leftmost first, is replaced
RECURSIVE ReSub(_, _)
ReSub(c, repl) ==
    LET starts == {n \in 1..Len(c) :
                     /\ c[n] = start_marker
                     /\ \E j \in (n + 1)..Len(c) : c[j] = end_marker}
    IN IF starts = {} THEN c
       ELSE LET from == MinOf(starts)
                to == MatchEnd(c, from)
            IN SubSeq(c, 1, from - 1) \o repl \o ReSub(SubSeq(c, to + 1, Len(c)), repl)

\* lines 153-162 of update_readme
UpdateContent(c, section) ==
    IF ~HasStart(c) THEN AppendSection(c, section)
    ELSE ReSub(c, Replacement(section))

\* faulty variant: mode 'a', which keeps the file
Truncate_append(f) == f

\* open('README.md', 'w'): the file is cut to nothing
Truncate(f) == <<>>

(***************************************************************************)
(* Inputs.                                                                 *)
(***************************************************************************)
NoToken == "<unset>"      \* os.environ.get returned None
TokenInputs == {NoToken, "", "ghp_token"}

\* faulty variant: 'token is None'
Falsy_none(t) == t = NoToken

\* 'not token'
Falsy(t) == t = NoToken \/ t = ""

Alphabet == {start_marker, end_marker, text}
Readmes(n) == UNION {[1..m -> Alphabet] : m \in 0..n}

MainReadmes == {<<>>, <<text, start_marker, text, end_marker, text>>, <<start_marker, text>>}

CommitInputs == {<<"Mon", 9>>, <<"Tue", 14>>}
YearCounts == {0, 1}
StarCounts == {2}
PullCounts == {2}
IssueCounts == {1}
EventInputs ==
    {[old |-> o, type |-> t, repo |-> "r1"] :
        o \in BOOLEAN, t \in {"PushEvent", "WatchEvent"}}

\* daily histograms: at most MaxDays days present, counts 0..MaxDaily
DayInputs == {"Mon", "Tue", "Sun"}
DailyInputs ==
    UNION {[D -> 0..MaxDaily] : D \in {X \in SUBSET DayInputs : Cardinality(X) <= MaxDays}}

\* day/hour histograms: at most MaxCells cells present, counts 0..MaxCell
HourlyDays == {"Mon", "Sun"}
HourInputs == {0, 9, 14}
NestedOf(cells) ==
    [d \in {c[1] : c \in DOMAIN cells} |->
        [h \in {c[2] : c \in {x \in DOMAIN cells : x[1] = d}} |-> cells[<<d, h>>]]]
HourlyInputs ==
    {NestedOf(cells) :
        cells \in UNION {[C -> 0..MaxCell] :
                    C \in {X \in SUBSET (HourlyDays \X HourInputs) : Cardinality(X) <= MaxCells}}}

\* the per-day totals get_commit_time_data keeps beside a day/hour histogram
RECURSIVE SumOver(_, _)
SumOver(f, D) ==
    IF D = {} THEN 0
    ELSE LET x == CHOOSE x \in D : TRUE IN f[x] + SumOver(f, D \ {x})
DailyOf(hc) == [d \in DOMAIN hc |-> SumOver(hc[d], DOMAIN hc[d])]

Example == NestedOf((<<"Mon", 9>> :> 3) @@ (<<"Mon", 14>> :> 1))
StatsInputs ==
    {StatsDict(1, 0, 2, 7, EmptyDict, EmptyDict, 0),
     StatsDict(1, 0, 2, 7, Example, DailyOf(Example), 1)}

(***************************************************************************)
(* Initial states.                                                         *)
(***************************************************************************)
NoYield == [c \in CommitInputs |-> 0]

\* everything the script has not assigned yet
Fresh ==
    /\ si = 0 /\ yi = 0 /\ ti = 0 /\ k = 0
    /\ stars = 0 /\ prs = 0 /\ issues = 0 /\ commits = 0
    /\ hourly_commits = EmptyDict /\ daily_commits = EmptyDict
    /\ contributed_repos = {}
    /\ daily_bars = NoBars /\ heatmap = NoHeat /\ stats_section = NoSection
    /\ content = <<>> /\ prior = <<>> /\ prev_section = NoSection /\ runs = 0
    /\ file0 = file /\ io_ops = 0 /\ api_called = FALSE
    /\ yielded = NoYield /\ counted = 0
    /\ failed_year = 0 /\ failed_time = 0 /\ crashed_at = ""

\* the script is started: main()
Init ==
    /\ pc = "main"
    /\ token \in TokenInputs
    /\ n_repos \in 0..MaxRepos
    /\ file \in MainReadmes
    /\ stats = NoStats
    /\ Fresh

\* update_readme(stats) is called on some README with some stats
InitPatch ==
    /\ pc = "read"
    /\ token = "ghp_token"
    /\ n_repos = 0
    /\ file \in Readmes(MaxLen)
    /\ stats \in StatsInputs
    /\ Fresh

\* create_stats_section(stats) is called on some histograms
InitRender ==
    /\ pc = "bars"
    /\ token = "ghp_token"
    /\ n_repos = 0
    /\ file = <<>>
    /\ \/ \E dc \in DailyInputs : stats = StatsDict(0, 0, 0, 0, EmptyDict, dc, 0)
       \/ \E hc \in HourlyInputs : stats = StatsDict(0, 0, 0, 0, hc, EmptyDict, 0)
       \/ \E hc \in HourlyInputs : stats = StatsDict(0, 0, 0, 0, hc, DailyOf(hc), 0)
    /\ Fresh

(***************************************************************************)
(* main and get_github_stats.                                              *)
(***************************************************************************)
collector == <<si, yi, ti, k, stars, prs, issues, commits, hourly_commits,
               daily_commits, contributed_repos, yielded, counted,
               failed_year, failed_time>>
renderer == <<daily_bars, heatmap, stats_section>>
patcher == <<file, content, prior, prev_section, runs, io_ops>>
env == <<token, n_repos, file0, crashed_at>>

\* main: the token is looked up and tested
CheckToken ==
    /\ pc = "main"
    /\ pc' = IF Falsy(token) THEN "error" ELSE "get_user"
    /\ UNCHANGED <<collector, renderer, patcher, env, stats, api_called>>

\* g = Github(token); user = g.get_user()
GetUser ==
    /\ pc = "get_user"
    /\ pc' = "stars"
    /\ api_called' = TRUE
    /\ UNCHANGED <<collector, renderer, patcher, env, stats>>

\* sum(repo.stargazers_count for repo in user.get_repos()): one repository
StarsRepo ==
    /\ pc = "stars" /\ si < n_repos
    /\ \E s \in StarCounts : stars' = stars + s
    /\ si' = si + 1
    /\ api_called' = TRUE
    /\ UNCHANGED <<pc, yi, ti, k, prs, issues, commits, hourly_commits, daily_commits,
                   contributed_repos, yielded, counted, failed_year, failed_time,
                   renderer, patcher, env, stats>>

StarsDone ==
    /\ pc = "stars" /\ si = n_repos
    /\ pc' = "prs"
    /\ UNCHANGED <<collector, renderer, patcher, env, stats, api_called>>

\* len(list(user.get_pulls()))
Pulls ==
    /\ pc = "prs"
    /\ prs' \in PullCounts
    /\ pc' = "issues"
    /\ api_called' = TRUE
    /\ UNCHANGED <<si, yi, ti, k, stars, issues, commits, hourly_commits, daily_commits,
                   contributed_repos, yielded, counted, failed_year, failed_time,
                   renderer, patcher, env, stats>>

\* len(list(user.get_issues()))
Issues ==
    /\ pc = "issues"
    /\ issues' \in IssueCounts
    /\ pc' = "year"
    /\ api_called' = TRUE
    /\ UNCHANGED <<si, yi, ti, k, stars, prs, commits, hourly_commits, daily_commits,
                   contributed_repos, yielded, counted, failed_year, failed_time,
                   renderer, patcher, env, stats>>

\* commits += repo.get_commits(since=...).totalCount
YearRepo ==
    /\ pc = "year" /\ yi < n_repos
    /\ \E c \in YearCounts :
          /\ commits' = commits + c
          /\ counted' = counted + c
    /\ yi' = yi + 1
    /\ api_called' = TRUE
    /\ UNCHANGED <<pc, si, ti, k, stars, prs, issues, hourly_commits, daily_commits,
                   contributed_repos, yielded, failed_year, failed_time,
                   renderer, patcher, env, stats>>

\* the call raises: except: continue
YearFail ==
    /\ pc = "year" /\ yi < n_repos
    /\ yi' = yi + 1
    /\ failed_year' = IF failed_year = 0 THEN yi + 1 ELSE failed_year
    /\ api_called' = TRUE
    /\ UNCHANGED <<pc, si, ti, k, stars, prs, issues, commits, hourly_commits,
                   daily_commits, contributed_repos, yielded, counted, failed_time,
                   renderer, patcher, env, stats>>

\* stats['commits'] = commits; get_commit_time_data(user) is entered
YearDone ==
    /\ pc = "year" /\ yi = n_repos
    /\ pc' = "time"
    /\ UNCHANGED <<collector, renderer, patcher, env, stats, api_called>>

(***************************************************************************)
(* get_commit_time_data.                                                   *)
(***************************************************************************)
\* hourly_commits[day_name][hour] += 1 on a defaultdict of defaultdict(int)
BumpCell(hc, day, hour) ==
    LET row == Get(hc, day, EmptyDict)
        new == [h \in DOMAIN row \cup {hour} |-> Get(row, h, 0) + (IF h = hour THEN 1 ELSE 0)]
    IN [d \in DOMAIN hc \cup {day} |-> IF d = day THEN new ELSE hc[d]]

\* daily_commits[day_name] += 1 on a defaultdict(int)
BumpDay(dc, day) ==
    [d \in DOMAIN dc \cup {day} |-> Get(dc, d, 0) + (IF d = day THEN 1 ELSE 0)]

\* for repo in user.get_repos(): commits = repo.get_commits(...)
TimeRepo ==
    /\ pc = "time" /\ ti < n_repos
    /\ pc' = "iter"
    /\ k' = 0
    /\ UNCHANGED <<si, yi, ti, stars, prs, issues, commits, hourly_commits, daily_commits,
                   contributed_repos, yielded, counted, failed_year, failed_time,
                   renderer, patcher, env, stats, api_called>>

\* for commit in commits: the listing yields one more commit
TimeCommit ==
    /\ pc = "iter" /\ k < MaxCommits
    /\ \E c \in CommitInputs :
          /\ hourly_commits' = BumpCell(hourly_commits, c[1], c[2])
          /\ daily_commits' = BumpDay(daily_commits, c[1])
          /\ yielded' = [yielded EXCEPT ![c] = @ + 1]
    /\ k' = k + 1
    /\ api_called' = TRUE
    /\ UNCHANGED <<pc, si, yi, ti, stars, prs, issues, commits, contributed_repos,
                   counted, failed_year, failed_time, renderer, patcher, env, stats>>

\* the listing is exhausted: the next repository
TimeEnd ==
    /\ pc = "iter"
    /\ pc' = "time"
    /\ ti' = ti + 1
    /\ api_called' = TRUE
    /\ UNCHANGED <<si, yi, k, stars, prs, issues, commits, hourly_commits, daily_commits,
                   contributed_repos, yielded, counted, failed_year, failed_time,
                   renderer, patcher, env, stats>>

\* faulty variant: 'break' in place of 'continue'
TimeFail_break ==
    /\ pc = "iter"
    /\ pc' = "events"
    /\ k' = 0
    /\ failed_time' = IF failed_time = 0 THEN ti + 1 ELSE failed_time
    /\ api_called' = TRUE
    /\ UNCHANGED <<si, yi, ti, stars, prs, issues, commits, hourly_commits, daily_commits,
                   contributed_repos, yielded, counted, failed_year,
                   renderer, patcher, env, stats>>

\* the listing raises, at its first page or a later one: except: continue
TimeFail ==
    /\ pc = "iter"
    /\ pc' = "time"
    /\ ti' = ti + 1
    /\ failed_time' = IF failed_time = 0 THEN ti + 1 ELSE failed_time
    /\ api_called' = TRUE
    /\ UNCHANGED <<si, yi, k, stars, prs, issues, commits, hourly_commits, daily_commits,
                   contributed_repos, yielded, counted, failed_year,
                   renderer, patcher, env, stats>>

\* return hourly_commits, daily_commits; events = user.get_events()
TimeDone ==
    /\ pc = "time" /\ ti = n_repos
    /\ pc' = "events"
    /\ k' = 0
    /\ UNCHANGED <<si, yi, ti, stars, prs, issues, commits, hourly_commits, daily_commits,
                   contributed_repos, yielded, counted, failed_year, failed_time,
                   renderer, patcher, env, stats, api_called>>

\* for event in events: one event
EventStep ==
    /\ pc = "events" /\ k < MaxEvents
    /\ \E e \in EventInputs :
          IF e.old
          THEN /\ pc' = "return"
               /\ UNCHANGED <<k, contributed_repos>>
          ELSE /\ pc' = pc
               /\ k' = k + 1
               /\ contributed_repos' =
                    IF e.type \in {"PushEvent", "PullRequestEvent"}
                    THEN contributed_repos \cup {e.repo}
                    ELSE contributed_repos
    /\ api_called' = TRUE
    /\ UNCHANGED <<si, yi, ti, stars, prs, issues, commits, hourly_commits, daily_commits,
                   yielded, counted, failed_year, failed_time,
                   renderer, patcher, env, stats>>

\* the events are exhausted
EventsEnd ==
    /\ pc = "events"
    /\ pc' = "return"
    /\ UNCHANGED <<collector, renderer, patcher, env, stats, api_called>>

\* stats['contributed_to'] = len(contributed_repos); return stats;
\* update_readme(stats) is entered
Return ==
    /\ pc = "return"
    /\ stats' = StatsDict(stars, prs, issues, commits, hourly_commits, daily_commits,
                          Cardinality(contributed_repos))
    /\ pc' = "read"
    /\ UNCHANGED <<collector, renderer, patcher, env, api_called>>

(***************************************************************************)
(* update_readme and create_stats_section.                                 *)
(***************************************************************************)
\* with open('README.md', 'r') as f: content = f.read()
ReadFile ==
    /\ pc = "read"
    /\ content' = file
    /\ prior' = file
    /\ io_ops' = io_ops + 1
    /\ pc' = "bars"
    /\ UNCHANGED <<file, prev_section, runs, collector, renderer, env, stats, api_called>>

\* daily_bars = create_daily_commit_bars(stats['daily_commits'])
CreateDailyCommitBars ==
    /\ pc = "bars"
    /\ daily_bars' = create_daily_commit_bars(stats.daily_commits)
    /\ pc' = "heat"
    /\ UNCHANGED <<heatmap, stats_section, collector, patcher, env, stats, api_called>>

\* heatmap = create_heatmap(stats['hourly_commits'])
CreateHeatmap ==
    /\ pc = "heat"
    /\ heatmap' = create_heatmap(stats.hourly_commits)
    /\ pc' = "section"
    /\ UNCHANGED <<daily_bars, stats_section, collector, patcher, env, stats, api_called>>

\* stats_section = f"""..."""; return stats_section
CreateStatsSection ==
    /\ pc = "section"
    /\ stats_section' = StatsSection(stats, daily_bars, heatmap)
    /\ pc' = "patch"
    /\ UNCHANGED <<daily_bars, heatmap, collector, patcher, env, stats, api_called>>

\* if start_marker not in content: ... else: content = re.sub(...)
Patch ==
    /\ pc = "patch"
    /\ content' = UpdateContent(content, stats_section)
    /\ pc' = "open"
    /\ UNCHANGED <<file, prior, prev_section, runs, io_ops, collector, renderer, env,
                   stats, api_called>>

\* with open('README.md', 'w') as f:
OpenWrite ==
    /\ pc = "open"
    /\ file' = Truncate(file)
    /\ io_ops' = io_ops + 1
    /\ pc' = "write"
    /\ UNCHANGED <<content, prior, prev_section, runs, collector, renderer, env, stats,
                   api_called>>

\* f.write(content): the text goes to the handle's buffer
Write ==
    /\ pc = "write"
    /\ pc' = "close"
    /\ UNCHANGED <<collector, renderer, patcher, env, stats, api_called>>

\* the with block is left: the buffer is written out and the file closed
Close ==
    /\ pc = "close"
    /\ file' = file \o content
    /\ runs' = runs + 1
    /\ pc' = "done"
    /\ UNCHANGED <<content, prior, prev_section, io_ops, collector, renderer, env, stats,
                   api_called>>

\* the script is run again, on the README the last run left
StartRun ==
    /\ pc = "done" /\ runs < MaxRuns
    /\ stats' \in StatsInputs
    /\ prev_section' = stats_section
    /\ pc' = "read"
    /\ UNCHANGED <<file, content, prior, runs, io_ops, collector, renderer, env,
                   api_called>>

\* the process is killed inside update_readme, after the read and before the
\* write is complete; killed while the buffer is being written out, any part
\* of it may have reached the file
Crash ==
    /\ pc \in {"bars", "heat", "section", "patch", "open", "write", "close"}
    /\ crashed_at' = pc
    /\ pc' = "crashed"
    /\ IF pc = "close"
       THEN \E n \in 0..Len(content) : file' = file \o SubSeq(content, 1, n)
       ELSE file' = file
    /\ UNCHANGED <<content, prior, prev_section, runs, io_ops, collector, renderer,
                   token, n_repos, file0, stats, api_called>>

(***************************************************************************)
(* Specifications.                                                         *)
(***************************************************************************)
UpdateReadme ==
    \/ ReadFile
    \/ CreateDailyCommitBars
    \/ CreateHeatmap
    \/ CreateStatsSection
    \/ Patch
    \/ OpenWrite
    \/ Write
    \/ Close

\* one run of the script
Next ==
    \/ CheckToken
    \/ GetUser
    \/ StarsRepo
    \/ StarsDone
    \/ Pulls
    \/ Issues
    \/ YearRepo
    \/ YearFail
    \/ YearDone
    \/ TimeRepo
    \/ TimeCommit
    \/ TimeEnd
    \/ TimeFail
    \/ TimeDone
    \/ EventStep
    \/ EventsEnd
    \/ Return
    \/ UpdateReadme

Spec == Init /\ [][Next]_vars

\* update_readme, run after run on the same README
NextPatch == UpdateReadme \/ StartRun

SpecPatch == InitPatch /\ [][NextPatch]_vars

\* update_readme with the process killed at any point
NextCrash == UpdateReadme \/ StartRun \/ Crash

SpecCrash == InitPatch /\ [][NextCrash]_vars

\* the renderers on their own
NextRender == CreateDailyCommitBars \/ CreateHeatmap \/ CreateStatsSection

SpecRender == InitRender /\ [][NextRender]_vars

(***************************************************************************)
(* Properties.                                                             *)
(***************************************************************************)
NoNewlines(c) == SelectSeq(c, LAMBDA t : t # newline)
Blocks(c) == {n \in 1..Len(c) : c[n][1] = "block"}
FirstStart(c) == MinOf({n \in 1..Len(c) : c[n] = start_marker})
EndsAfter(c, from) == {j \in (from + 1)..Len(c) : c[j] = end_marker}
IsPrefix(a, b) == Len(a) <= Len(b) /\ SubSeq(b, 1, Len(a)) = a

\* C1: update_readme is idempotent: a second run with the same block leaves
\* the file exactly as the first run left it, whatever the README held.
C1_Idempotent ==
    (pc = "done" /\ runs >= 2 /\ stats_section = prev_section) => file = prior

C1_Witness ==
    /\ pc = "done" /\ runs = 2 /\ stats_section = prev_section
    /\ file = prior /\ file # file0
    /\ \E n \in 1..Len(file0) : file0[n] = start_marker

\* C2: after one or more runs, whatever markers the file held, the file holds
\* exactly one rendered block and it sits between a start and an end marker.
C2_OneBlockBetweenMarkers ==
    (pc = "done" /\ runs >= 1) =>
        /\ Cardinality(Blocks(file)) = 1
        /\ \E a, b, c \in 1..Len(file) :
              /\ a < b /\ b < c
              /\ file[a] = start_marker
              /\ file[b] = Block(stats_section)
              /\ file[c] = end_marker

\* C3: with no start marker in the README, exactly one start marker + block +
\* end marker section is appended and the prior content is kept as a prefix.
C3_AppendKeepsPrefix ==
    (pc = "done" /\ ~(\E n \in 1..Len(prior) : prior[n] = start_marker)) =>
        /\ IsPrefix(prior, file)
        /\ NoNewlines(SubSeq(file, Len(prior) + 1, Len(file)))
             = <<start_marker, Block(stats_section), end_marker>>

C3_Witness ==
    /\ pc = "done" /\ runs = 1
    /\ ~(\E n \in 1..Len(prior) : prior[n] = start_marker)
    /\ \E n \in 1..Len(prior) : prior[n] = end_marker
    /\ Len(file) = Len(prior) + 7

\* C4 as stated: with a start marker (and an end marker after it) in the
\* README, the span from the first start marker through the FIRST end marker
\* is replaced and the text before and after it is unchanged.
C4_FirstEnd ==
    (pc = "done" /\ HasStart(prior) /\ EndsAfter(prior, FirstStart(prior)) # {}) =>
        LET from == FirstStart(prior)
            to == MinOf(EndsAfter(prior, from))
        IN file = SubSeq(prior, 1, from - 1)
                    \o <<start_marker, newline, Block(stats_section), newline, end_marker>>
                    \o SubSeq(prior, to + 1, Len(prior))

\* C4 amended: the span from the first start marker through the LAST end
\* marker is replaced, the text before and after it unchanged; with no end
\* marker after the first start marker the file is left as it was.
C4_LastEnd ==
    (pc = "done" /\ HasStart(prior)) =>
        LET from == FirstStart(prior)
            ends == EndsAfter(prior, from)
        IN IF ends = {} THEN file = prior
           ELSE file = SubSeq(prior, 1, from - 1)
                         \o <<start_marker, newline, Block(stats_section), newline, end_marker>>
                         \o SubSeq(prior, MaxOf(ends) + 1, Len(prior))

C4_Witness ==
    /\ pc = "done" /\ HasStart(prior)
    /\ Cardinality(EndsAfter(prior, FirstStart(prior))) >= 2
    /\ prior[1] = text
    /\ Len(file) = 6

\* C5: with GITHUB_TOKEN unset or empty, main ends in an error before any API
\* call and before README.md is opened: the README is unchanged and no
\* collector step has happened.
C5_MissingTokenStops ==
    (token = NoToken \/ token = "") =>
        /\ pc \in {"main", "error"}
        /\ ~api_called
        /\ io_ops = 0
        /\ file = file0
        /\ si = 0 /\ yi = 0 /\ ti = 0 /\ stats = NoStats

C5_Witness == token = "" /\ pc = "error" /\ file = file0 /\ Len(file0) > 0

\* the histograms the renderers were given
GivenDaily == stats.daily_commits
GivenHourly == stats.hourly_commits
CountOf(day, hour) ==
    IF day \in DOMAIN GivenHourly /\ hour \in DOMAIN GivenHourly[day]
    THEN GivenHourly[day][hour] ELSE 0
DayCount(day) == IF day \in DOMAIN GivenDaily THEN GivenDaily[day] ELSE 0
DayIndex(day) == CHOOSE n \in 1..7 : days[n] = day
GlyphAt(day, hour) == heatmap[DayIndex(day)][hour + 1]
BarsDone == pc \in {"heat", "section", "patch"}
HeatDone == pc \in {"section", "patch"}

\* C6: for histograms of non-negative counts with a nonzero cell, every bar
\* length is in 0..20, every hours label in 0..24 and every one of the 7x24
\* glyph indices in 0..6, a valid index of the palette.
C6_WithinPalette ==
    /\ (BarsDone /\ \E d \in Days : DayCount(d) > 0) =>
          \A n \in 1..7 :
             /\ daily_bars[n].bar_length \in 0..20
             /\ daily_bars[n].hours \in 0..24
    /\ (HeatDone /\ \E d \in Days, h \in 0..23 : CountOf(d, h) > 0) =>
          \A d \in Days, h \in 0..23 :
             /\ GlyphAt(d, h) \in 0..6
             /\ GlyphAt(d, h) + 1 \in DOMAIN intensity_chars

C6_Witness ==
    /\ pc = "patch"
    /\ \E n \in 1..7 : daily_bars[n].bar_length = 20 /\ daily_bars[n].hours = 24
    /\ \E n \in 1..7 : daily_bars[n].bar_length \in 1..19
    /\ \E d \in Days, h \in 0..23 : GlyphAt(d, h) = 6
    /\ \E d \in Days, h \in 0..23 : GlyphAt(d, h) \in 1..5

\* C7: each weekday, in the order Mon..Sun, is scaled linearly against the
\* largest daily count onto 0..20: the largest count gets 20, half of it 10
\* ({Mon: 10, Tue: 5} gives 20 and 10), an absent day 0, and with all counts
\* zero or no day at all every bar is 0 and no division error occurs.
C7_BarsScale ==
    BarsDone =>
        LET m == IF DOMAIN GivenDaily = {} THEN 0
                 ELSE MaxOf({GivenDaily[d] : d \in DOMAIN GivenDaily})
            Bar(n) == daily_bars[n].bar_length
        IN /\ \A n \in 1..7 :
                /\ daily_bars[n].day = days[n]
                /\ days[n] \notin DOMAIN GivenDaily => Bar(n) = 0
                /\ m = 0 => Bar(n) = 0 /\ daily_bars[n].hours = 0
                /\ (m > 0 /\ DayCount(days[n]) = m) => Bar(n) = 20
                /\ (m > 0 /\ 2 * DayCount(days[n]) = m) => Bar(n) = 10
                /\ m > 0 => /\ 2 * (Bar(n) * m - 20 * DayCount(days[n])) <= m
                            /\ 2 * (20 * DayCount(days[n]) - Bar(n) * m) <= m
           /\ \A a, b \in 1..7 :
                DayCount(days[a]) <= DayCount(days[b]) => Bar(a) <= Bar(b)
           /\ GivenDaily = ("Mon" :> 10) @@ ("Tue" :> 5) =>
                /\ Bar(1) = 20 /\ Bar(2) = 10
                /\ \A n \in 3..7 : Bar(n) = 0

C7_Witness ==
    /\ pc = "heat"
    /\ GivenDaily = ("Mon" :> 10) @@ ("Tue" :> 5)
    /\ daily_bars[1].bar_length = 20
    /\ daily_bars[2].bar_length = 10
    /\ daily_bars[7].bar_length = 0

\* C8: each (day, hour) cell is scaled linearly against the largest cell count
\* onto the 7 glyphs: the largest count gets the highest glyph, a zero or
\* absent cell the empty glyph, a larger count never a lower glyph; for
\* {Mon: {9: 3, 14: 1}} hour 9 gets the highest glyph, hour 14 a low nonzero
\* one and every other cell the empty one.
C8_HeatScale ==
    HeatDone =>
        LET cells == Days \X (0..23)
            m == MaxOf({0} \cup UNION {{GivenHourly[d][h] : h \in DOMAIN GivenHourly[d]} :
                                          d \in DOMAIN GivenHourly})
            Glyph(c) == GlyphAt(c[1], c[2])
        IN /\ \A c \in cells :
                /\ CountOf(c[1], c[2]) = 0 => Glyph(c) = 0
                /\ (m > 0 /\ CountOf(c[1], c[2]) = m) => Glyph(c) = 6
                /\ m > 0 => /\ Glyph(c) * m <= 6 * CountOf(c[1], c[2])
                            /\ 6 * CountOf(c[1], c[2]) < (Glyph(c) + 1) * m
           /\ \A c \in Days \X HourInputs, e \in Days \X HourInputs :
                CountOf(c[1], c[2]) <= CountOf(e[1], e[2]) => Glyph(c) <= Glyph(e)
           /\ GivenHourly = Example =>
                /\ GlyphAt("Mon", 9) = 6
                /\ GlyphAt("Mon", 14) \in 1..3
                /\ \A c \in cells \ {<<"Mon", 9>>, <<"Mon", 14>>} : Glyph(c) = 0

C8_Witness ==
    /\ pc = "section"
    /\ GivenHourly = Example
    /\ GlyphAt("Mon", 9) = 6
    /\ GlyphAt("Mon", 14) = 2
    /\ GlyphAt("Sun", 9) = 0

\* the histograms that hold exactly the commits the API yielded
YieldedCells == {c \in CommitInputs : yielded[c] > 0}
YieldedHourly ==
    [d \in {c[1] : c \in YieldedCells} |->
        [h \in {c[2] : c \in {x \in YieldedCells : x[1] = d}} |-> yielded[<<d, h>>]]]
YieldedDaily ==
    [d \in {c[1] : c \in YieldedCells} |->
        SumOver(yielded, {x \in YieldedCells : x[1] = d})]
AfterYear == {"time", "iter", "events", "return", "read", "bars", "heat", "section",
              "patch", "open", "write", "close", "done"}
AfterTime == AfterYear \ {"time", "iter"}

\* C9: a failure of one repository's commit listing is swallowed: the counts
\* hold exactly what the API yielded before it, every repository of the
\* listing is still taken by both loops, no error reaches the caller, and the
\* run goes on to render and write the README.
C9_SkipAndContinue ==
    /\ pc = "error" => (token = NoToken \/ token = "")
    /\ hourly_commits = YieldedHourly
    /\ daily_commits = YieldedDaily
    /\ commits = counted
    /\ pc \in AfterYear => yi = n_repos
    /\ pc \in AfterTime => ti = n_repos
    /\ pc = "done" =>
          /\ runs = 1
          /\ file = content
          /\ stats.commits = counted
          /\ stats.hourly_commits = YieldedHourly
          /\ stats.daily_commits = YieldedDaily
          /\ stats_section.commits = counted
          /\ io_ops = 2

C9_Witness ==
    /\ pc = "done"
    /\ n_repos = 2
    /\ failed_year = 1 /\ counted = 1
    /\ failed_time = 1 /\ yielded = [c \in CommitInputs |-> 1]
    /\ \E n \in 1..Len(file) : file[n] = Block(stats_section)

\* C10 as stated: killed anywhere after the read and before the write is
\* complete, README.md holds the complete old or the complete new content,
\* never an empty or partial one.
C10_OldOrNew ==
    pc # "read" => (file = prior \/ file = content)

\* C10 amended: killed before README.md is reopened for writing, the file
\* holds its prior content; from the reopening, which cuts the file to
\* nothing, until the write is complete it holds a (possibly empty) part of
\* the new content from its start; after the run it holds the new content.
C10_OldOrPrefixOfNew ==
    pc # "read" =>
        /\ file = prior \/ IsPrefix(file, content)
        /\ pc \in {"bars", "heat", "section", "patch", "open"} => file = prior
        /\ (pc = "crashed" /\ crashed_at \notin {"write", "close"}) => file = prior
        /\ pc \in {"write", "close"} => file = <<>>
        /\ (pc = "crashed" /\ crashed_at = "write") => file = <<>>
        /\ pc = "done" => file = content

C10_Witness ==
    /\ pc = "crashed" /\ crashed_at = "close"
    /\ Len(prior) > 0
    /\ Len(file) > 0 /\ Len(file) < Len(content)
    /\ file # prior

====
